---- MODULE Spec2Model ----
(***************************************************************************)
(* A model of S3_Opti_Fetch.py: _calculate_part_size,                      *)
(* progress_download_callback and multi_part_download.                     *)
(*                                                                         *)
(* UNITS.  TLC's integers are 32 bits wide and the program's smallest part *)
(* size, 5 * 1024^3 bytes, does not fit.  Every byte quantity of the model *)
(* is therefore counted in BLOCKS of 1024 * 1024 bytes, the size of one    *)
(* read of the response body (line 106).  An object of the model is a      *)
(* whole number of blocks; its smallest non-empty object is one block.     *)
(* Every size the program computes from such an object (the part size,     *)
(* the range bounds, the chunk lengths) is again a whole number of blocks, *)
(* so the arithmetic of the model is the arithmetic of the program divided *)
(* by 2^20, and "is a power of two" means the same in both units.          *)
(*                                                                         *)
(* CONTENTS.  The byte (block) at offset k of the object is identified     *)
(* with k.  A byte string that was built by appending pieces of the object *)
(* is a sequence of EXTENTS <<lo, hi>> (the blocks lo..hi in order), kept  *)
(* in normal form: two adjacent extents are merged exactly when the second *)
(* continues the first.  Two strings are equal iff their normal forms are. *)
(***************************************************************************)
EXTENDS Integers, Sequences, FiniteSets, TLC

VARIABLES
    pc,                 \* control point of multi_part_download
    object_size,        \* backend: the object's ContentLength (blocks)
    dir_exists,         \* file system: destination_path exists
    dir_created,        \* history: this run executed os.makedirs (line 85)
    part_files,         \* file system: part index -> content of <base>.part<i>
    final_file,         \* file system: [exists, data] of <base>
    file_size,          \* local (line 78)
    part_size,          \* local (line 79)
    num_parts,          \* local (line 80)
    parts_downloaded,   \* local (line 88)
    i,                  \* loop variable of the fetch loop (line 90)
    start_byte,         \* local (line 92)
    end_byte,           \* local (line 93)
    prev_end,           \* history: end_byte of the previous iteration, -1 at first
    have_range,         \* history: lines 92-93 ran at least once
    body,               \* obj['Body']: the extents still to be read, <<>> at EOF
    total_bytes,        \* local (line 103)
    bytes_downloaded,   \* local (line 104, 110)
    j,                  \* position in parts_downloaded of the loops at 122 and 130
    requests,           \* history: the ranged reads issued, <<i, start, end>>
    chunk_bytes,        \* history: sum of len(chunk) over all chunks read
    globals_defined,    \* the module globals of the callback are bound
    bytes_transferred,  \* global (line 31)
    last_update,        \* global (line 32)
    job_update_interval,\* global read at line 37
    now,                \* the clock: the last value time.time() returned
    emitted,            \* the progress record printed by this step, <<>> if none
    report_times,       \* history: the timestamps of the records printed
    raised,             \* the exception multi_part_download raised, <<>> if none
    fault,              \* history: the exception thrown inside the try block, "" if none
    total_exp,          \* byte-exact sizing: total_size = 10000 * 2^total_exp + total_off
    total_off,          \* byte-exact sizing: see total_exp
    part_exp            \* byte-exact sizing: the part size returned is 2^part_exp bytes

vars == <<pc, object_size, dir_exists, dir_created, part_files, final_file,
          file_size, part_size, num_parts, parts_downloaded, i, start_byte,
          end_byte, prev_end, have_range, body, total_bytes, bytes_downloaded,
          j, requests, chunk_bytes, globals_defined, bytes_transferred,
          last_update, job_update_interval, now, emitted, report_times, raised,
          fault, total_exp, total_off, part_exp>>

\* The variables of the byte-exact sizing (SpecBytes); no run touches them.
bigVars == <<total_exp, total_off, part_exp>>

(***************************************************************************)
(* Bounds of the model.                                                    *)
(***************************************************************************)
MaxTime == 2        \* the clock stops advancing at MaxTime ticks
MaxInterval == 2    \* job_update_interval ranges over 1..MaxInterval ticks

(***************************************************************************)
(* Program constants (in blocks, see UNITS).                               *)
(***************************************************************************)
BLOCKS_PER_GIB == 1024                  \* 1024 * 1024 * 1024 bytes
MIN_PART_SIZE == 5 * BLOCKS_PER_GIB     \* line 15: 5 * 1024 * 1024 * 1024
TARGET_PARTS == 10000                   \* line 17
CHUNK_SIZE == 1                         \* line 106: read(1024 * 1024)
ERROR_PREFIX == "Error during multipart download:"   \* line 139

Min(a, b) == IF a <= b THEN a ELSE b
Max(a, b) == IF a >= b THEN a ELSE b

RECURSIVE Pow2(_)
Pow2(k) == IF k = 0 THEN 1 ELSE 2 * Pow2(k - 1)

IsPowerOfTwo(n) == \E k \in 0..30 : n = Pow2(k)

(***************************************************************************)
(* math.ceil(math.log2(n / d)) for n / d > 1/2, counted from k: the least  *)
(* exponent e >= k with 2^e >= n / d.  For an integer power 2^e,           *)
(* 2^e >= n / d iff 2^e >= ceil(n / d).                                    *)
(***************************************************************************)
RECURSIVE CeilLog2From(_, _, _)
CeilLog2From(k, n, d) ==
    IF Pow2(k) >= (n + d - 1) \div d THEN k ELSE CeilLog2From(k + 1, n, d)

(***************************************************************************)
(* Lines 17-20 in blocks: int(2 ^ ceil(log2(total_size / 10000))).  When   *)
(* the ideal size is at most half a block the power of two is below one    *)
(* block (and int() makes it 0 bytes when the exponent is negative): it is *)
(* 0 whole blocks.  Otherwise the exponent in blocks is >= 0.              *)
(***************************************************************************)
RoundedIdeal(total_size) ==
    IF 2 * total_size <= TARGET_PARTS
    THEN 0
    ELSE Pow2(CeilLog2From(0, total_size, TARGET_PARTS))

\* Faulty variant of calculate_part_size: the clamp of line 22 is missing.
calculate_part_size_noclamp(total_size) == Max(RoundedIdeal(total_size), 1)

\* _calculate_part_size, lines 9-23.
calculate_part_size(total_size) ==
    Max(RoundedIdeal(total_size), MIN_PART_SIZE)

\* Line 80: int(file_size / part_size) + 1.
NumParts(size, psize) == (size \div psize) + 1

\* Faulty variant of StartByte: the offsets are counted from 1.
StartByteFromOne(k, psize) == k * psize + 1

\* Line 92.
StartByte(k, psize) == k * psize

\* Faulty variant of EndByte: the "- 1" of the inclusive end is missing.
EndByteOffByOne(k, psize, size) == Min((k + 1) * psize, size - 1)

\* Line 93.
EndByte(k, psize, size) == Min((k + 1) * psize - 1, size - 1)

(***************************************************************************)
(* Byte strings as extents in normal form.                                 *)
(***************************************************************************)
Last(s) == s[Len(s)]
Front(s) == SubSeq(s, 1, Len(s) - 1)

\* f.write(extent) on a file holding data.
WriteExtent(data, ext) ==
    IF data # <<>> /\ Last(data)[2] + 1 = ext[1]
    THEN Append(Front(data), <<Last(data)[1], ext[2]>>)
    ELSE Append(data, ext)

\* f.write(more) on a file holding data, more a whole byte string.
RECURSIVE WriteAll(_, _)
WriteAll(data, more) ==
    IF more = <<>> THEN data
    ELSE WriteAll(WriteExtent(data, Head(more)), Tail(more))

RECURSIVE DataLen(_)
DataLen(data) ==
    IF data = <<>> THEN 0
    ELSE (Head(data)[2] - Head(data)[1] + 1) + DataLen(Tail(data))

\* The bytes of the object of the given size.
ObjectData(size) == IF size = 0 THEN <<>> ELSE << <<0, size - 1>> >>

\* The bytes of the object in the inclusive range lo..hi (empty if lo > hi).
RangeData(lo, hi) == IF lo > hi THEN <<>> ELSE << <<lo, hi>> >>

(***************************************************************************)
(* The storage backend (external): head_object and get_object.             *)
(***************************************************************************)
\* A range the backend can serve: first <= last and first inside the object.
Satisfiable(lo, hi, size) == lo <= hi /\ lo < size

\* The body of the response to Range: bytes=lo-hi.
ResponseBody(lo, hi, size) == RangeData(lo, Min(hi, size - 1))

\* Line 103: int(obj['ContentRange'].split('/')[-1]).  The header reads
\* "bytes lo-hi/size": what follows the slash is the size of the object.
ContentRangeTotal(lo, hi, size) == size

\* One read(1024 * 1024) of a body: the chunk returned.
NextChunk(b) ==
    <<Head(b)[1], Min(Head(b)[1] + CHUNK_SIZE - 1, Head(b)[2])>>

\* The body after that read.
RestOfBody(b) ==
    IF Head(b)[1] + CHUNK_SIZE > Head(b)[2]
    THEN Tail(b)
    ELSE <<<<Head(b)[1] + CHUNK_SIZE, Head(b)[2]>>>> \o Tail(b)

ChunkLen(c) == c[2] - c[1] + 1

(***************************************************************************)
(* progress_download_callback, lines 27-45.                                *)
(***************************************************************************)
\* Faulty variant of ShouldReport: the throttle is missing.
ShouldReportAlways(timestamp, last, interval) == TRUE

\* Line 37.
ShouldReport(timestamp, last, interval) == timestamp - last >= interval

\* Line 34.
Accumulate(transferred, downloaded) == transferred + downloaded

\* The call progress_download_callback(downloaded, total) with the globals
\* bound; time.time() returns a tick in now..now+1, at most MaxTime.
progress_download_callback(downloaded, total) ==
    \E timestamp \in now..Min(now + 1, MaxTime) :
        /\ now' = timestamp
        /\ bytes_transferred' = Accumulate(bytes_transferred, downloaded)
        /\ IF ShouldReport(timestamp, last_update, job_update_interval)
           THEN /\ last_update' = timestamp
                /\ emitted' = << [num_bytes |-> downloaded,
                                  bytes_transferred |-> bytes_transferred',
                                  progress |-> <<downloaded, total>>,
                                  timestamp |-> timestamp] >>
                /\ report_times' = Append(report_times, timestamp)
           ELSE /\ emitted' = <<>>
                /\ UNCHANGED <<last_update, report_times>>
        /\ UNCHANGED <<globals_defined, job_update_interval>>

(***************************************************************************)
(* multi_part_download, lines 64-139.                                      *)
(***************************************************************************)
planVars == <<file_size, part_size, num_parts>>
rangeVars == <<start_byte, end_byte, prev_end, have_range>>
streamVars == <<body, total_bytes, bytes_downloaded, chunk_bytes>>
progressVars == <<globals_defined, bytes_transferred, last_update,
                  job_update_interval, now, report_times>>

\* Faulty variant of ExceptHandler: the handler removes the part files.
ExceptHandlerCleanup(files) == <<>>

\* Lines 137-139, the file system's part files after the handler ran: the
\* handler prints and raises, it removes nothing.
ExceptHandler(files) == files

\* Faulty variant of ExceptClause: the handler prints and does not raise, the
\* function returns normally.
ExceptClauseSwallows(cause) ==
    /\ pc' = "Done"
    /\ raised' = <<>>

\* Lines 137-139: the exception is caught and raised again, wrapped.
ExceptClause(cause) ==
    /\ pc' = "Failed"
    /\ raised' = <<ERROR_PREFIX, cause>>

\* A statement of the try block (lines 76-135) throws: the handler runs.
Fail(cause, files) ==
    /\ fault' = cause
    /\ ExceptClause(cause)
    /\ part_files' = ExceptHandler(files)
    /\ emitted' = <<>>

\* Lines 78-80.
Planning ==
    /\ file_size' = object_size
    /\ part_size' = calculate_part_size(object_size)
    /\ num_parts' = NumParts(object_size, calculate_part_size(object_size))

\* Lines 92-93.
ComputeRange ==
    /\ start_byte' = StartByte(i, part_size)
    /\ end_byte' = EndByte(i, part_size, file_size)
    /\ prev_end' = IF have_range THEN end_byte ELSE -1
    /\ have_range' = TRUE

\* Faulty variant of EnsureDir: os.makedirs is not called.
EnsureDirSkipped(exists) == exists

\* Lines 83-85: whether the destination directory exists after the check and
\* os.makedirs.
EnsureDir(exists) == IF ~exists THEN TRUE ELSE exists

\* Faulty variant of LoopDone: the loop runs over range(num_parts - 1).
LoopDoneEarly(k, n) == k >= n - 1

\* Line 90: range(num_parts) is exhausted before iteration k.
LoopDone(k, n) == k >= n

HeadObject ==
    /\ pc = "head"
    /\ Planning
    /\ pc' = "mkdir"
    /\ emitted' = <<>>
    /\ UNCHANGED <<object_size, bigVars, dir_exists, dir_created, part_files, final_file,
                   parts_downloaded, i, rangeVars, streamVars, j, requests,
                   progressVars, raised, fault>>

\* Faulty variant of HeadObjectFault: the directory is created (lines 83-85)
\* before the size is queried (line 78).
HeadObjectFaultAfterMakedirs ==
    /\ pc = "head"
    /\ dir_exists' = EnsureDir(dir_exists)
    /\ dir_created' = (~dir_exists /\ dir_exists')
    /\ Fail("head_object", part_files)
    /\ UNCHANGED <<object_size, bigVars, final_file, planVars,
                   parts_downloaded, i, rangeVars, streamVars, j, requests,
                   progressVars>>

\* Line 78 raises: the metadata query fails.
HeadObjectFault ==
    /\ pc = "head"
    /\ Fail("head_object", part_files)
    /\ UNCHANGED <<object_size, bigVars, dir_exists, dir_created, final_file, planVars,
                   parts_downloaded, i, rangeVars, streamVars, j, requests,
                   progressVars>>

Makedirs ==
    /\ pc = "mkdir"
    /\ dir_exists' = EnsureDir(dir_exists)
    /\ dir_created' = (~dir_exists /\ dir_exists')
    /\ parts_downloaded' = <<>>
    /\ i' = 0
    /\ pc' = "loop"
    /\ emitted' = <<>>
    /\ UNCHANGED <<object_size, bigVars, part_files, final_file, planVars, rangeVars,
                   streamVars, j, requests, progressVars, raised, fault>>

MakedirsFault ==
    /\ pc = "mkdir"
    /\ ~dir_exists
    /\ Fail("makedirs", part_files)
    /\ UNCHANGED <<object_size, bigVars, dir_exists, dir_created, final_file, planVars,
                   parts_downloaded, i, rangeVars, streamVars, j, requests,
                   progressVars>>

\* Lines 90-101: the next iteration computes its range and opens the part file
\* for writing; open() fails when the directory is missing.
OpenPart ==
    /\ pc = "loop"
    /\ ~LoopDone(i, num_parts)
    /\ ComputeRange
    /\ IF dir_exists
       THEN /\ part_files' = (i :> <<>>) @@ part_files
            /\ pc' = "get"
            /\ emitted' = <<>>
            /\ UNCHANGED <<raised, fault>>
       ELSE Fail("open part", part_files)
    /\ UNCHANGED <<object_size, bigVars, dir_exists, dir_created, final_file, planVars,
                   parts_downloaded, i, streamVars, j, requests, progressVars>>

OpenPartFault ==
    /\ pc = "loop"
    /\ ~LoopDone(i, num_parts)
    /\ ComputeRange
    /\ Fail("open part", part_files)
    /\ UNCHANGED <<object_size, bigVars, dir_exists, dir_created, final_file, planVars,
                   parts_downloaded, i, streamVars, j, requests, progressVars>>

\* Lines 102-104 for a range the backend can serve.
GetObject ==
    /\ pc = "get"
    /\ Satisfiable(start_byte, end_byte, object_size)
    /\ requests' = Append(requests, <<i, start_byte, end_byte>>)
    /\ body' = ResponseBody(start_byte, end_byte, object_size)
    /\ total_bytes' = ContentRangeTotal(start_byte, end_byte, object_size)
    /\ bytes_downloaded' = 0
    /\ pc' = "read"
    /\ emitted' = <<>>
    /\ UNCHANGED <<object_size, bigVars, dir_exists, dir_created, part_files, final_file,
                   planVars, parts_downloaded, i, rangeVars, chunk_bytes, j,
                   progressVars, raised, fault>>

\* Line 102 for a range with first > last, or first at or past the end of the
\* object.  What the backend answers is not the program's to decide: it
\* rejects the request (InvalidRange), or answers without a ContentRange
\* (the KeyError of line 103), both are GetObjectRejected; or it answers with
\* an empty body, GetObjectEmpty.
GetObjectRejected ==
    /\ pc = "get"
    /\ ~Satisfiable(start_byte, end_byte, object_size)
    /\ requests' = Append(requests, <<i, start_byte, end_byte>>)
    /\ Fail("get_object: range not satisfiable", part_files)
    /\ UNCHANGED <<object_size, bigVars, dir_exists, dir_created, final_file, planVars,
                   parts_downloaded, i, rangeVars, streamVars, j, progressVars>>

GetObjectEmpty ==
    /\ pc = "get"
    /\ ~Satisfiable(start_byte, end_byte, object_size)
    /\ requests' = Append(requests, <<i, start_byte, end_byte>>)
    /\ body' = <<>>
    /\ total_bytes' = ContentRangeTotal(start_byte, end_byte, object_size)
    /\ bytes_downloaded' = 0
    /\ pc' = "read"
    /\ emitted' = <<>>
    /\ UNCHANGED <<object_size, bigVars, dir_exists, dir_created, part_files, final_file,
                   planVars, parts_downloaded, i, rangeVars, chunk_bytes, j,
                   progressVars, raised, fault>>

\* Line 102 raises (a transport or backend fault).
GetObjectFault ==
    /\ pc = "get"
    /\ Satisfiable(start_byte, end_byte, object_size)
    /\ requests' = Append(requests, <<i, start_byte, end_byte>>)
    /\ Fail("get_object", part_files)
    /\ UNCHANGED <<object_size, bigVars, dir_exists, dir_created, final_file, planVars,
                   parts_downloaded, i, rangeVars, streamVars, j, progressVars>>

\* Lines 106-111 with a non-empty chunk and the callback's globals bound.
ReadChunk ==
    /\ pc = "read"
    /\ body # <<>>
    /\ globals_defined
    /\ LET chunk == NextChunk(body) IN
        /\ body' = RestOfBody(body)
        /\ part_files' = [part_files EXCEPT ![i] = WriteExtent(@, chunk)]
        /\ bytes_downloaded' = bytes_downloaded + ChunkLen(chunk)
        /\ chunk_bytes' = chunk_bytes + ChunkLen(chunk)
        /\ progress_download_callback(bytes_downloaded + ChunkLen(chunk),
                                      total_bytes)
    /\ UNCHANGED <<pc, object_size, bigVars, dir_exists, dir_created, final_file,
                   planVars, parts_downloaded, i, rangeVars, total_bytes, j,
                   requests, raised, fault>>

\* Lines 106-111 with the callback's globals unbound: line 34 raises
\* NameError after the chunk was written.
ReadChunkNameError ==
    /\ pc = "read"
    /\ body # <<>>
    /\ ~globals_defined
    /\ LET chunk == NextChunk(body) IN
        /\ body' = RestOfBody(body)
        /\ bytes_downloaded' = bytes_downloaded + ChunkLen(chunk)
        /\ chunk_bytes' = chunk_bytes + ChunkLen(chunk)
        /\ Fail("NameError: bytes_transferred",
                [part_files EXCEPT ![i] = WriteExtent(@, chunk)])
    /\ UNCHANGED <<object_size, bigVars, dir_exists, dir_created, final_file, planVars,
                   parts_downloaded, i, rangeVars, total_bytes, j, requests,
                   progressVars>>

\* Line 106 raises: the stream breaks.
ReadFault ==
    /\ pc = "read"
    /\ body # <<>>
    /\ Fail("read", part_files)
    /\ UNCHANGED <<object_size, bigVars, dir_exists, dir_created, final_file, planVars,
                   parts_downloaded, i, rangeVars, streamVars, j, requests,
                   progressVars>>

\* Line 109 raises: the chunk was read and is not written.
WriteFault ==
    /\ pc = "read"
    /\ body # <<>>
    /\ body' = RestOfBody(body)
    /\ Fail("write", part_files)
    /\ UNCHANGED <<object_size, bigVars, dir_exists, dir_created, final_file, planVars,
                   parts_downloaded, i, rangeVars, total_bytes,
                   bytes_downloaded, chunk_bytes, j, requests, progressVars>>

\* Faulty variant of Record: the index is put at the front of the list.
RecordAtFront(parts, k) == <<k>> \o parts

\* Line 114: parts_downloaded.append(i).
Record(parts, k) == Append(parts, k)

\* Faulty variant of ReadEOF: the empty chunk does not leave the loop
\* (continue for break), the body is read again and again.
ReadEOFSpins ==
    /\ pc = "read"
    /\ body = <<>>
    /\ UNCHANGED vars

\* Lines 106-108 and 113-115: the empty chunk ends the part.
ReadEOF ==
    /\ pc = "read"
    /\ body = <<>>
    /\ parts_downloaded' = Record(parts_downloaded, i)
    /\ i' = i + 1
    /\ pc' = "loop"
    /\ emitted' = <<>>
    /\ UNCHANGED <<object_size, bigVars, dir_exists, dir_created, part_files, final_file,
                   planVars, rangeVars, streamVars, j, requests, progressVars,
                   raised, fault>>

\* Lines 117-121: the loop is over, the final file is opened for writing.
OpenFinal ==
    /\ pc = "loop"
    /\ LoopDone(i, num_parts)
    /\ final_file' = [exists |-> TRUE, data |-> <<>>]
    /\ j' = 1
    /\ pc' = "combine"
    /\ emitted' = <<>>
    /\ UNCHANGED <<object_size, bigVars, dir_exists, dir_created, part_files, planVars,
                   parts_downloaded, i, rangeVars, streamVars, requests,
                   progressVars, raised, fault>>

OpenFinalFault ==
    /\ pc = "loop"
    /\ LoopDone(i, num_parts)
    /\ Fail("open final", part_files)
    /\ UNCHANGED <<object_size, bigVars, dir_exists, dir_created, final_file, planVars,
                   parts_downloaded, i, rangeVars, streamVars, j, requests,
                   progressVars>>

\* Lines 122-126, one iteration.
AppendPart ==
    /\ pc = "combine"
    /\ j <= Len(parts_downloaded)
    /\ final_file' = [final_file EXCEPT
                        !.data = WriteAll(@, part_files[parts_downloaded[j]])]
    /\ j' = j + 1
    /\ emitted' = <<>>
    /\ UNCHANGED <<pc, object_size, bigVars, dir_exists, dir_created, part_files,
                   planVars, parts_downloaded, i, rangeVars, streamVars,
                   requests, progressVars, raised, fault>>

\* Line 125 or 126 raises.
AppendPartFault ==
    /\ pc = "combine"
    /\ j <= Len(parts_downloaded)
    /\ Fail("reassembly", part_files)
    /\ UNCHANGED <<object_size, bigVars, dir_exists, dir_created, final_file, planVars,
                   parts_downloaded, i, rangeVars, streamVars, j, requests,
                   progressVars>>

\* Lines 121-129: the final file is closed, the cleanup starts.
CloseFinal ==
    /\ pc = "combine"
    /\ j > Len(parts_downloaded)
    /\ j' = 1
    /\ pc' = "cleanup"
    /\ emitted' = <<>>
    /\ UNCHANGED <<object_size, bigVars, dir_exists, dir_created, part_files, final_file,
                   planVars, parts_downloaded, i, rangeVars, streamVars,
                   requests, progressVars, raised, fault>>

\* Faulty variant of Removed: os.remove is given the wrong name and removes nothing.
RemovedNothing(files, k) == files

\* Line 131: the part files after os.remove of part k.
Removed(files, k) == [n \in DOMAIN files \ {k} |-> files[n]]

\* Lines 130-131, one iteration.
RemovePart ==
    /\ pc = "cleanup"
    /\ j <= Len(parts_downloaded)
    /\ part_files' = Removed(part_files, parts_downloaded[j])
    /\ j' = j + 1
    /\ emitted' = <<>>
    /\ UNCHANGED <<pc, object_size, bigVars, dir_exists, dir_created, final_file,
                   planVars, parts_downloaded, i, rangeVars, streamVars,
                   requests, progressVars, raised, fault>>

\* Line 131 raises.
RemovePartFault ==
    /\ pc = "cleanup"
    /\ j <= Len(parts_downloaded)
    /\ Fail("remove", part_files)
    /\ UNCHANGED <<object_size, bigVars, dir_exists, dir_created, final_file, planVars,
                   parts_downloaded, i, rangeVars, streamVars, j, requests,
                   progressVars>>

\* Lines 133-135: the function returns.
Finish ==
    /\ pc = "cleanup"
    /\ j > Len(parts_downloaded)
    /\ pc' = "Done"
    /\ emitted' = <<>>
    /\ UNCHANGED <<object_size, bigVars, dir_exists, dir_created, part_files, final_file,
                   planVars, parts_downloaded, i, rangeVars, streamVars, j,
                   requests, progressVars, raised, fault>>

(***************************************************************************)
(* The run: one call of multi_part_download.                               *)
(***************************************************************************)
\* Object sizes of the runs: one block, two blocks, exactly one part size,
\* one part size and a block.
ObjectSizes == {1, 2, MIN_PART_SIZE, MIN_PART_SIZE + 1}

\* No byte-exact sizing is in progress.
Big0 == total_exp = 0 /\ total_off = 0 /\ part_exp = 0

Locals0 ==
    /\ file_size = 0 /\ part_size = 0 /\ num_parts = 0
    /\ parts_downloaded = <<>> /\ i = 0
    /\ start_byte = 0 /\ end_byte = 0 /\ prev_end = -1 /\ have_range = FALSE
    /\ body = <<>> /\ total_bytes = 0 /\ bytes_downloaded = 0 /\ j = 0
    /\ requests = <<>> /\ chunk_bytes = 0
    /\ emitted = <<>> /\ report_times = <<>> /\ raised = <<>> /\ fault = ""
    /\ part_files = <<>>
    /\ final_file = [exists |-> FALSE, data |-> <<>>]
    /\ dir_created = FALSE
    /\ now = 0

Init ==
    /\ pc = "head"
    /\ object_size \in ObjectSizes
    /\ dir_exists \in BOOLEAN
    /\ globals_defined \in BOOLEAN
    /\ bytes_transferred = 0
    /\ last_update = 0
    /\ job_update_interval \in
         IF globals_defined THEN 1..MaxInterval ELSE {1}
    /\ Locals0
    /\ Big0

Next ==
    \/ HeadObject \/ HeadObjectFault
    \/ Makedirs \/ MakedirsFault
    \/ OpenPart \/ OpenPartFault
    \/ GetObject \/ GetObjectRejected \/ GetObjectEmpty \/ GetObjectFault
    \/ ReadChunk \/ ReadChunkNameError \/ ReadFault \/ WriteFault \/ ReadEOF
    \/ OpenFinal \/ OpenFinalFault
    \/ AppendPart \/ AppendPartFault \/ CloseFinal
    \/ RemovePart \/ RemovePartFault \/ Finish

Spec == Init /\ [][Next]_vars

\* The run of a thread that is never starved: the function is sequential and
\* every call it makes returns or raises (the body streams are finite), so
\* the next statement is eventually executed.
SpecLive == Init /\ [][Next]_vars /\ WF_vars(Next)

(***************************************************************************)
(* The plan alone: _calculate_part_size and the ranges of lines 90-94,     *)
(* without the transfers, for object sizes up to the power-of-two branch.  *)
(***************************************************************************)
\* Object sizes of the plans, in blocks: small objects; around one and two
\* part sizes; 50 GiB; and, where total_size / 10000 exceeds 5 GiB, around an
\* ideal size of 5 GiB and of exactly 8 GiB.
PlanSizes ==
    {1, 2, 5001, TARGET_PARTS,
     MIN_PART_SIZE - 1, MIN_PART_SIZE, MIN_PART_SIZE + 1, 2 * MIN_PART_SIZE,
     50 * BLOCKS_PER_GIB,
     TARGET_PARTS * MIN_PART_SIZE, TARGET_PARTS * MIN_PART_SIZE + 1,
     TARGET_PARTS * 8 * BLOCKS_PER_GIB, TARGET_PARTS * 8 * BLOCKS_PER_GIB + 1}

PlanInit ==
    /\ pc = "plan"
    /\ object_size \in PlanSizes
    /\ dir_exists = TRUE
    /\ globals_defined = FALSE
    /\ bytes_transferred = 0
    /\ last_update = 0
    /\ job_update_interval = 1
    /\ Locals0
    /\ Big0

\* Lines 78-80.
PlanSize ==
    /\ pc = "plan"
    /\ Planning
    /\ pc' = "plan_loop"
    /\ UNCHANGED <<object_size, bigVars, dir_exists, dir_created, part_files, final_file,
                   parts_downloaded, i, rangeVars, streamVars, j, requests,
                   progressVars, emitted, raised, fault>>

\* Lines 90-94, one iteration.
PlanRange ==
    /\ pc = "plan_loop"
    /\ ~LoopDone(i, num_parts)
    /\ ComputeRange
    /\ i' = i + 1
    /\ UNCHANGED <<pc, object_size, bigVars, dir_exists, dir_created, part_files,
                   final_file, planVars, parts_downloaded, streamVars, j,
                   requests, progressVars, emitted, raised, fault>>

\* Line 90: the loop is over.
PlanEnd ==
    /\ pc = "plan_loop"
    /\ LoopDone(i, num_parts)
    /\ pc' = "planned"
    /\ UNCHANGED <<object_size, bigVars, dir_exists, dir_created, part_files, final_file,
                   planVars, parts_downloaded, i, rangeVars, streamVars, j,
                   requests, progressVars, emitted, raised, fault>>

PlanNext == PlanSize \/ PlanRange \/ PlanEnd

SpecPlan == PlanInit /\ [][PlanNext]_vars

(***************************************************************************)
(* _calculate_part_size to the byte, in the power-of-two branch.           *)
(*                                                                         *)
(* A size around a boundary of that branch is total_size =                 *)
(* 10000 * 2^k + r bytes, |r| small: it does not fit TLC's integers and is *)
(* kept as the pair (k, r).  Python computes lines 17-19 in IEEE doubles:  *)
(*   x = total_size / 10000 = 2^k * (1 + e),  e = r / (10000 * 2^k),       *)
(*   math.log2(x) = k + log2(1 + e) = k + e / ln 2  (e is below 10^-12),   *)
(* and the double nearest to that is k itself when e / ln 2 is below half  *)
(* the spacing of the doubles just above k.                                *)
(***************************************************************************)
MinExp == 33    \* 10000 * 2^33 bytes: the least k with 2^k above 5 GiB
MaxExp == 38    \* 10000 * 2^38 bytes, below 2^53: total_size is a double
MaxOff == 8     \* r ranges over -MaxOff..MaxOff bytes

DOUBLE_MANTISSA_BITS == 52      \* float: IEEE 754 binary64
LN2_PER_10000 == 6931           \* ln 2 = 0.6931..., in ten-thousandths

RECURSIVE FloorLog2(_)
FloorLog2(n) == IF n < 2 THEN 0 ELSE 1 + FloorLog2(n \div 2)

\* The doubles in [k, 2^(FloorLog2(k)+1)) are 2^(FloorLog2(k) - 52) apart:
\* half that spacing is 2^-HalfUlpExp(k).
HalfUlpExp(k) == DOUBLE_MANTISSA_BITS + 1 - FloorLog2(k)

\* e / ln 2 against 2^-HalfUlpExp(k), both multiplied by
\* 10000 * ln 2 * 2^HalfUlpExp(k): r * 2^(HalfUlpExp(k) - k) against
\* 10000 * ln 2.
ScaledExcess(k, r) == r * Pow2(HalfUlpExp(k) - k)
ScaledHalfUlp == (LN2_PER_10000 * TARGET_PARTS) \div 10000

\* Line 19, math.ceil(math.log2(total_size / 10000)): the values it can
\* return.  For r <= 0 the logarithm is in (k - 1, k].  For r > 0 it rounds to
\* k when the excess is clearly below half the spacing and to above k when it
\* is clearly above; within 5% of it the rounding of the division and of
\* log2 itself decide, and both values are possible.
CeilLog2Double(k, r) ==
    IF r <= 0 THEN {k}
    ELSE IF 20 * ScaledExcess(k, r) < 19 * ScaledHalfUlp THEN {k}
    ELSE IF 20 * ScaledExcess(k, r) > 21 * ScaledHalfUlp THEN {k + 1}
    ELSE {k, k + 1}

\* Lines 20-22 for part_size = 2^p bytes: 2^p bytes are 2^(p - 20) blocks;
\* the result is 2^p unless the 5 GiB floor is larger (-1 stands for it).
ClampedExp(p) == IF Pow2(p - 20) >= MIN_PART_SIZE THEN p ELSE -1

BytesInit ==
    /\ pc = "bytes"
    /\ object_size = 0
    /\ total_exp \in MinExp..MaxExp
    /\ total_off \in (0 - MaxOff)..MaxOff
    /\ part_exp = 0
    /\ dir_exists = TRUE
    /\ globals_defined = FALSE
    /\ bytes_transferred = 0
    /\ last_update = 0
    /\ job_update_interval = 1
    /\ Locals0

\* _calculate_part_size(10000 * 2^total_exp + total_off), lines 9-23.
CalculatePartSizeBytes ==
    /\ pc = "bytes"
    /\ \E p \in CeilLog2Double(total_exp, total_off) : part_exp' = ClampedExp(p)
    /\ pc' = "sized"
    /\ UNCHANGED <<object_size, total_exp, total_off, dir_exists, dir_created,
                   part_files, final_file, planVars, parts_downloaded, i,
                   rangeVars, streamVars, j, requests, progressVars, emitted,
                   raised, fault>>

BytesNext == CalculatePartSizeBytes

SpecBytes == BytesInit /\ [][BytesNext]_vars

(***************************************************************************)
(* Properties.                                                             *)
(***************************************************************************)
\* The range of part k of the plan, as a byte string of the object.
PartData(k) ==
    ResponseBody(StartByte(k, part_size), EndByte(k, part_size, file_size),
                 object_size)

\* C1: every range the loop generates has end >= start, starts where the
\* previous one ended (the first at 0), and the last one ends at
\* totalSize - 1: the ranges tile [0, totalSize).
C1_RangesTile ==
    (pc = "plan_loop" /\ have_range) =>
        /\ end_byte >= start_byte
        /\ start_byte = prev_end + 1
        /\ (LoopDone(i, num_parts) => end_byte = file_size - 1)

\* C2: the number of parts is the number needed to cover the object: the
\* parts before the last do not cover it and all of them do; 50 GiB gives
\* 10 parts, the smallest object gives 1 part covering [0, 0].
C2_PartCount ==
    pc = "planned" =>
        /\ (num_parts - 1) * part_size < file_size
        /\ num_parts * part_size >= file_size
        /\ (file_size = 50 * BLOCKS_PER_GIB => num_parts = 10)
        /\ (file_size = 1 => num_parts = 1 /\ start_byte = 0 /\ end_byte = 0)

\* C3: when the run is Done the final file holds exactly the object's bytes,
\* in order, and has the object's length.
C3_RoundTrip ==
    pc = "Done" =>
        /\ final_file.exists
        /\ final_file.data = ObjectData(object_size)
        /\ DataLen(final_file.data) = object_size

C3_Witness ==
    /\ pc = "Done"
    /\ Len(parts_downloaded) = 2
    /\ object_size = MIN_PART_SIZE + 1
    /\ final_file.data = ObjectData(object_size)

\* C4 (as claimed): the part size is at least 5 GiB and a power of two.
C4_PowerOfTwo ==
    pc = "planned" => part_size >= MIN_PART_SIZE /\ IsPowerOfTwo(part_size)

\* C4 (amended): the part size is at least 5 GiB, and it is either the
\* 5 GiB floor itself or a power of two.
C4_FloorOrPowerOfTwo ==
    pc = "planned" =>
        /\ part_size >= MIN_PART_SIZE
        /\ (part_size = MIN_PART_SIZE \/ IsPowerOfTwo(part_size))

C4_Witness ==
    /\ pc = "planned"
    /\ part_size > MIN_PART_SIZE
    /\ IsPowerOfTwo(part_size)

TransferCauses ==
    {"get_object", "get_object: range not satisfiable", "read", "write"}

\* C5: when the ranged read or a chunk write of part i failed, the run is
\* Failed with the wrapped error, no read was issued for a part after i, there
\* is no final file, the files of parts 0..i-1 are complete and the file of
\* part i is on disk.
C5_TransferFailure ==
    (pc = "Failed" /\ raised[2] \in TransferCauses) =>
        /\ raised[1] = ERROR_PREFIX
        /\ \A r \in 1..Len(requests) : requests[r][1] <= i
        /\ ~final_file.exists
        /\ \A k \in 0..i : k \in DOMAIN part_files
        /\ \A k \in 0..(i - 1) : part_files[k] = PartData(k)

C5_Witness ==
    /\ pc = "Failed"
    /\ raised[2] = "read"
    /\ i = 1
    /\ part_files[0] = PartData(0)
    /\ 1 \in DOMAIN part_files
    /\ ~final_file.exists

\* C6: the final file exists only when every part of the plan is recorded in
\* parts_downloaded, in index order, and when it is opened every part file
\* holds its whole range.
C6_FinalAfterAllParts ==
    final_file.exists =>
        /\ Len(parts_downloaded) = num_parts
        /\ \A k \in 1..num_parts : parts_downloaded[k] = k - 1
        /\ (pc = "combine" =>
               \A k \in 0..(num_parts - 1) :
                   k \in DOMAIN part_files /\ part_files[k] = PartData(k))

C6_Witness ==
    /\ final_file.exists
    /\ pc = "combine"
    /\ num_parts = 2
    /\ j = 1

\* C7: when the run is Done no part file remains and the final file exists.
C7_DoneCleaned ==
    pc = "Done" => DOMAIN part_files = {} /\ final_file.exists

C7_Witness ==
    /\ pc = "Done"
    /\ Len(parts_downloaded) = 2
    /\ DOMAIN part_files = {}
    /\ final_file.exists

\* C8: once every part is fetched, bytes_transferred equals the sum of the
\* sizes of the chunks read, which is the object's size.
C8_NoInflation ==
    (pc \in {"combine", "cleanup", "Done"} /\ globals_defined) =>
        /\ chunk_bytes = object_size
        /\ bytes_transferred = chunk_bytes

\* C9: two successive reports are at least job_update_interval apart, and
\* last_update is the timestamp of the last report (its initial value while
\* there is none): it changes only when a report is emitted.
C9_Throttle ==
    /\ \A k \in 2..Len(report_times) :
           report_times[k] - report_times[k - 1] >= job_update_interval
    /\ last_update = IF report_times = <<>> THEN 0 ELSE Last(report_times)
    /\ (emitted # <<>> => emitted[1].timestamp = last_update)

C9_Witness ==
    /\ Len(report_times) >= 2
    /\ pc = "read"
    /\ bytes_downloaded > 0
    /\ emitted = <<>>

\* C10: once the fetch loop has begun (a range was computed, a part file was
\* opened or a ranged read was issued) the destination directory exists.
C10_DirBeforeFetch ==
    (have_range \/ requests # <<>> \/ DOMAIN part_files # {}) => dir_exists

C10_Witness ==
    /\ dir_created
    /\ dir_exists
    /\ Len(requests) = 1
    /\ DOMAIN part_files = {0}

\* C11: when head_object failed the run is Failed with the wrapped error and
\* nothing was done: no range computed, no ranged read, no part file, no final
\* file, no directory created (the file system is as it was).
C11_MetadataFailure ==
    fault = "head_object" =>
        /\ pc = "Failed"
        /\ raised = <<ERROR_PREFIX, "head_object">>
        /\ ~have_range
        /\ requests = <<>>
        /\ DOMAIN part_files = {}
        /\ ~final_file.exists
        /\ ~dir_created

C11_Witness ==
    /\ fault = "head_object"
    /\ pc = "Failed"
    /\ ~dir_exists
    /\ requests = <<>>

ReassemblyCauses == {"open final", "reassembly"}

\* C12: when opening or writing the final file failed, the run is Failed and
\* every part of the plan is recorded and its file is still on disk, whole.
C12_ReassemblyFailure ==
    fault \in ReassemblyCauses =>
        /\ pc = "Failed"
        /\ raised = <<ERROR_PREFIX, fault>>
        /\ Len(parts_downloaded) = num_parts
        /\ \A k \in 1..Len(parts_downloaded) :
               /\ parts_downloaded[k] \in DOMAIN part_files
               /\ part_files[parts_downloaded[k]] = PartData(parts_downloaded[k])

C12_Witness ==
    /\ fault = "reassembly"
    /\ pc = "Failed"
    /\ j = 2
    /\ DOMAIN part_files = {0, 1}
    /\ part_files[1] # <<>>

\* C13: every report emitted carries the fraction (bytes of the chunk just
\* read) / (bytes of the current part's range): the numerator is the growth
\* of bytes_downloaded in this step (line 110), the denominator the length of
\* the range start_byte..end_byte.
C13_PartFraction ==
    [][emitted' # <<>> =>
          emitted'[1].progress =
              <<bytes_downloaded' - bytes_downloaded,
                end_byte - start_byte + 1>>]_vars

\* C14: the callback's globals are bound when the first chunk is reported, so
\* the report of a chunk never fails with a NameError.
C14_ProgressStateInitialized ==
    /\ (pc = "read" => globals_defined)
    /\ fault # "NameError: bytes_transferred"

\* C15: the ranged reads are issued for the parts 0, 1, 2, ... in this order,
\* each index once; parts_downloaded is 0, 1, ..., k-1; the read for a part is
\* issued only when all parts before it are recorded, and while the loop runs
\* every recorded part's file holds its whole range.
C15_Sequential ==
    /\ \A r \in 1..Len(requests) : requests[r][1] = r - 1
    /\ \A k \in 1..Len(parts_downloaded) : parts_downloaded[k] = k - 1
    /\ Len(parts_downloaded) <= Len(requests)
    /\ Len(requests) <= Len(parts_downloaded) + 1
    /\ (pc \in {"loop", "get", "read"} =>
           \A k \in 1..Len(parts_downloaded) :
               /\ (k - 1) \in DOMAIN part_files
               /\ part_files[k - 1] = PartData(k - 1))

C15_Witness ==
    /\ pc = "read"
    /\ Len(requests) = 2
    /\ parts_downloaded = <<0>>
    /\ bytes_downloaded > 0
    /\ part_files[0] = PartData(0)

\* C16: a run in which a statement of the try block threw is Failed and
\* raised exactly the wrapped failure, the fixed prefix with the cause; a run
\* in which nothing threw is not Failed and raised nothing; so a run that is
\* Done had no fault.
C16_CaughtOnce ==
    /\ (fault # "" => pc = "Failed" /\ raised = <<ERROR_PREFIX, fault>>)
    /\ (fault = "" => pc # "Failed" /\ raised = <<>>)
    /\ (pc = "Done" => fault = "")

C16_Witness ==
    /\ fault = "remove"
    /\ pc = "Failed"
    /\ raised = <<ERROR_PREFIX, "remove">>
    /\ final_file.exists

\* C17: the part size times 10000 is at least total_size.  With
\* part_size = 2^part_exp and total_size = 10000 * 2^total_exp + total_off,
\* both sides divided by 2^total_exp: 10000 * 2^(part_exp - total_exp) is an
\* integer and total_off / 2^total_exp is in (-1, 1), so the comparison is with
\* 10000, plus 1 when total_off > 0.
C17_NeverUndersized ==
    pc = "sized" =>
        /\ part_exp >= total_exp
        /\ Pow2(part_exp - total_exp) * TARGET_PARTS
               >= TARGET_PARTS + (IF total_off > 0 THEN 1 ELSE 0)

\* C18: in a terminal state the final file either does not exist or holds
\* the complete object.
C18_FinalFileAtomic ==
    pc \in {"Done", "Failed"} =>
        (~final_file.exists \/ final_file.data = ObjectData(object_size))

Terminal == {"Done", "Failed"}

\* C19: every run eventually is Done or Failed, and from then on it stays in
\* that state and leaves the file system alone.
C19_Terminates ==
    /\ <>(pc \in Terminal)
    /\ [][(pc \in Terminal) =>
             (pc' = pc /\ UNCHANGED <<dir_exists, part_files, final_file>>)]_vars

C19_Witness ==
    /\ pc = "Done"
    /\ Len(parts_downloaded) = 2
    /\ chunk_bytes = object_size
    /\ object_size = MIN_PART_SIZE + 1

====
